---- MODULE Spec2Model ----
(***************************************************************************)
(* Viewer navigation and ambient-colour controller of the Polaroid gallery *)
(* (src/App.tsx): view state, carousel scroll offset, URL/history state    *)
(* and directly applied page styles, driven by clicks, keys, scrolling,    *)
(* timers, data arrival and browser back/forward.                          *)
(*                                                                         *)
(* React state and what the last render captured are kept apart:           *)
(* selectedExhibit/currentIndex are the state as last set, rSelected and   *)
(* rIndex the values the event handlers of the last render closed over.    *)
(* Updates made in click, popstate and data-arrival turns are rendered in  *)
(* the same step; updates made by a scroll handler are rendered by the     *)
(* separate Rerender step that React schedules after the event.            *)
(***************************************************************************)
EXTENDS Integers, Sequences, FiniteSets, TLC

\* ------------------------------------------------------------------------
\* Bounds of the model
\* ------------------------------------------------------------------------
\* longest `slide` query value tried as a deep link
MaxSlideLen == 2
\* history entries kept per session (pushes stop at the cap)
MaxHist == 2
\* release timers of the transition lock pending at the same time
MaxLockTimers == 2
\* width of the carousel container in layout units
ClientWidth == 2

\* ------------------------------------------------------------------------
\* Strings are tuples of one-character strings
\* ------------------------------------------------------------------------
DigitChars == <<"0", "1", "2", "3", "4", "5", "6", "7", "8", "9">>

Digits == {DigitChars[i] : i \in 1..10}

DigitVal(c) == (CHOOSE i \in 1..10 : DigitChars[i] = c) - 1

\* characters a deep-linked `slide` value is built from
SlideAlphabet == {"0", "1", "-", "x"}

SlideInputs == UNION {[1..n -> SlideAlphabet] : n \in 0..MaxSlideLen}

RECURSIVE DigitPrefixLen(_)
DigitPrefixLen(s) ==
    IF s = <<>> \/ Head(s) \notin Digits THEN 0 ELSE 1 + DigitPrefixLen(Tail(s))

RECURSIVE DecValue(_)
DecValue(s) ==
    IF s = <<>> THEN 0
    ELSE 10 * DecValue(SubSeq(s, 1, Len(s) - 1)) + DigitVal(s[Len(s)])

\* parseInt(s, 10): optional sign, then the longest prefix of decimal
\* digits; NaN when there is none.  (The inputs hold no white space.)
parseInt(s) ==
    LET signed == s # <<>> /\ Head(s) \in {"-", "+"}
        body   == IF signed THEN Tail(s) ELSE s
        k      == DigitPrefixLen(body)
        v      == DecValue(SubSeq(body, 1, k))
    IN  IF k = 0 THEN [isNaN |-> TRUE, val |-> 0]
        ELSE [isNaN |-> FALSE,
              val |-> IF signed /\ Head(s) = "-" THEN 0 - v ELSE v]

RECURSIVE NatToString(_)
NatToString(n) ==
    IF n < 10 THEN <<DigitChars[n + 1]>>
    ELSE NatToString(n \div 10) \o <<DigitChars[(n % 10) + 1]>>

\* Number.prototype.toString() of an integer
toString(n) == IF n < 0 THEN <<"-">> \o NatToString(0 - n) ELSE NatToString(n)

\* ------------------------------------------------------------------------
\* Exhibits (types.ts) and the catalogue the content API can return
\* ------------------------------------------------------------------------
NoColor == <<>>
NoTitle == ""

Hex(a, b, c) == <<"#", a, b, c>>

Item(asset, bg, fg, title) ==
    [asset |-> asset, bg |-> bg, fg |-> fg, title |-> title]

ExhibitA ==
    [identifier |-> "a", title |-> "Alpha",
     coverBg |-> Hex("0", "0", "f"), coverFg |-> Hex("e", "e", "e"),
     items |-> << Item(TRUE, Hex("f", "0", "0"), Hex("1", "1", "1"), "One"),
                  Item(FALSE, NoColor, NoColor, "Draft"),
                  Item(TRUE, NoColor, NoColor, NoTitle),
                  Item(TRUE, <<"#", "0", "0", "f", "f", "0", "0">>, NoColor, "Three") >>]

ExhibitB ==
    [identifier |-> "b", title |-> "Beta",
     coverBg |-> NoColor, coverFg |-> NoColor,
     items |-> << Item(TRUE, NoColor, NoColor, NoTitle) >>]

ExhibitC ==
    [identifier |-> "c", title |-> "Gamma",
     coverBg |-> Hex("3", "3", "3"), coverFg |-> NoColor,
     items |-> << Item(TRUE, Hex("0", "f", "0"), Hex("f", "f", "f"), "First"),
                  Item(TRUE, NoColor, NoColor, "Second") >>]

Catalogue == {ExhibitA, ExhibitB, ExhibitC}

Identifiers == {e.identifier : e \in Catalogue}

\* selectedExhibit === null
NoExhibit == "<null>"

ExhibitOf(id) == CHOOSE e \in Catalogue : e.identifier = id

\* what a fetch settles with: a list of exhibits, or a rejection
Rejected == <<"<rejected>">>

WeeklyOutcomes == {Rejected, <<"a", "b">>}

CreativeOutcomes == {Rejected, <<"c">>}

\* selectedExhibit?.gallery?.galleryItems?.filter(i => i.image?.asset) || []
galleryItems(sel) ==
    IF sel = NoExhibit THEN <<>>
    ELSE SelectSeq(ExhibitOf(sel).items, LAMBDA i : i.asset)

NavigableCount(sel) == Len(galleryItems(sel))

\* ------------------------------------------------------------------------
\* URL query string and session history
\* ------------------------------------------------------------------------
AbsentId == "<absent>"
AbsentSlide == <<"<absent>">>

Url(exhibit, slide) == [exhibit |-> exhibit, slide |-> slide]

\* the path with the slide parameter left in the query
PathWithSlide == Url(AbsentId, <<"0">>)

\* window.location.pathname: the URL without any query
PathOnly == Url(AbsentId, AbsentSlide)

ExhibitInputs == {AbsentId, "", "a", "c", "zz"}

UrlInputs ==
    {Url(x, s) : x \in ExhibitInputs, s \in SlideInputs \cup {AbsentSlide}}

\* the URLs a session of the viewer is opened on: the bare path, deep links
\* to a slide in range and beyond the last slide, and a deep link into the
\* creative list (which matches no loaded exhibit when that list fails)
DeepLinks ==
    {PathOnly, Url("a", <<"1">>), Url("a", <<"1", "1">>), Url("c", <<"1">>)}

\* ------------------------------------------------------------------------
\* Colours
\* ------------------------------------------------------------------------
HexChars == <<"0", "1", "2", "3", "4", "5", "6", "7", "8", "9",
              "a", "b", "c", "d", "e", "f">>

\* the digits in upper case (the patterns of hexToRgb carry the i flag and
\* parseInt(.., 16) reads either case)
HexCharsUpper == <<"0", "1", "2", "3", "4", "5", "6", "7", "8", "9",
                   "A", "B", "C", "D", "E", "F">>

HexDigits == {HexChars[i] : i \in 1..16} \cup {HexCharsUpper[i] : i \in 1..16}

HexVal(c) == (CHOOSE i \in 1..16 : HexChars[i] = c \/ HexCharsUpper[i] = c) - 1

Rgb(r, g, b) == <<r, g, b>>

\* hexToRgb: optional '#', three digits (each doubled) or six digits;
\* anything else is black.
hexToRgb(hex) ==
    LET h == IF hex # <<>> /\ Head(hex) = "#" THEN Tail(hex) ELSE hex
        ok == \A i \in 1..Len(h) : h[i] \in HexDigits
        h6 == IF Len(h) = 3 /\ ok
              THEN <<h[1], h[1], h[2], h[2], h[3], h[3]>> ELSE h
    IN  IF Len(h6) = 6 /\ ok
        THEN Rgb(16 * HexVal(h6[1]) + HexVal(h6[2]),
                 16 * HexVal(h6[3]) + HexVal(h6[4]),
                 16 * HexVal(h6[5]) + HexVal(h6[6]))
        ELSE Rgb(0, 0, 0)

\* Math.round(num / den) for den > 0: halves round towards +Infinity
Round(num, den) == (2 * num + den) \div (2 * den)

\* Math.floor(num / den) for den > 0
Floor(num, den) == num \div den

\* interpolateColor returning the first colour whatever the factor
interpolateColorFirst(c1, c2, num, den) ==
    LET rgb1 == hexToRgb(c1)
    IN  Rgb(rgb1[1], rgb1[2], rgb1[3])

\* interpolateColor(c1, c2, factor) with factor = num / den; the result
\* string `rgb(r, g, b)` is kept as the triple it denotes
interpolateColor(c1, c2, num, den) ==
    LET rgb1 == hexToRgb(c1)
        rgb2 == hexToRgb(c2)
        ch(i) == Round(rgb1[i] * den + num * (rgb2[i] - rgb1[i]), den)
    IN  Rgb(ch(1), ch(2), ch(3))

\* '#2c2435', the fallback of the colour sequence
DefaultColor == <<"#", "2", "c", "2", "4", "3", "5">>

\* '#0e0e1a', appBgColor
HomeBg == <<"#", "0", "e", "0", "e", "1", "a">>

\* the fallback taken whether or not the colour is present
OrElseAlwaysFallback(c, fallback) == fallback

\* item.bg || fallback
OrElse(c, fallback) == IF c # NoColor THEN c ELSE fallback

\* galleryColors mapped over all gallery items, with or without an asset
galleryColorsUnfiltered(sel) ==
    IF sel = NoExhibit THEN <<>>
    ELSE LET coverColor == OrElse(ExhibitOf(sel).coverBg, DefaultColor)
             items == ExhibitOf(sel).items
         IN  [i \in 1..Len(items) |-> OrElse(items[i].bg, coverColor)]

\* galleryColors (useMemo on selectedExhibit)
galleryColors(sel) ==
    IF sel = NoExhibit THEN <<>>
    ELSE LET coverColor == OrElse(ExhibitOf(sel).coverBg, DefaultColor)
             items == galleryItems(sel)
         IN  [i \in 1..Len(items) |-> OrElse(items[i].bg, coverColor)]

\* '#f4f4f5', appTextColor in Home
HomeText == <<"#", "f", "4", "f", "4", "f", "5">>

\* '#ffffff', the fallback of appTextColor in Detail
DefaultText == <<"#", "f", "f", "f", "f", "f", "f">>

\* image.asset.metadata.palette is present: the catalogue's palettes are
\* those that record a dominant background or foreground
HasPalette(bg, fg) == bg # NoColor \/ fg # NoColor

\* appTextColor of a render with exhibit sel at index idx:
\* (currentPalette || fallbackPalette)?.dominant?.foreground || '#ffffff'
appTextColor(sel, idx) ==
    IF sel = NoExhibit THEN HomeText
    ELSE LET items == galleryItems(sel)
             hasItem == idx + 1 \in 1..Len(items)
             currentPalette == hasItem /\ HasPalette(items[idx + 1].bg, items[idx + 1].fg)
             foreground == IF currentPalette THEN items[idx + 1].fg
                           ELSE ExhibitOf(sel).coverFg
         IN  OrElse(foreground, DefaultText)

\* the colour a style property holds after a colour string was assigned
CssColor(c) == hexToRgb(c)

\* style.backgroundColor = ''
Cleared == <<>>

AnimatedTransition == "background-color 0.7s ease-out"

BaseTitle == "Polaroid App Selections"

\* the title without the slide's title
TitleForExhibitOnly(sel, idx) ==
    IF sel = NoExhibit THEN <<BaseTitle>>
    ELSE <<ExhibitOf(sel).title, BaseTitle>>

\* document.title as set by the title effect
TitleFor(sel, idx) ==
    IF sel = NoExhibit THEN <<BaseTitle>>
    ELSE LET items == galleryItems(sel)
             itemTitle == IF idx + 1 \in 1..Len(items)
                          THEN items[idx + 1].title ELSE NoTitle
         IN  IF itemTitle # NoTitle
             THEN <<itemTitle, ExhibitOf(sel).title, BaseTitle>>
             ELSE <<ExhibitOf(sel).title, BaseTitle>>

\* ------------------------------------------------------------------------
\* State
\* ------------------------------------------------------------------------
VARIABLES
    loading,          \* useState loading
    error,            \* useState error, as "is set"
    exhibits,         \* useState exhibits: identifiers of the weekly list
    creativeCalls,    \* useState creativeCalls
    selectedExhibit,  \* useState selectedExhibit: identifier or NoExhibit
    currentIndex,     \* useState currentIndex
    rSelected,        \* selectedExhibit as of the last render
    rIndex,           \* currentIndex as of the last render
    hist,             \* session history: the URLs of its entries
    pos,              \* the current entry
    scrollLeft,       \* scrollContainerRef.current.scrollLeft
    scrollTarget,     \* offset a smooth scroll is heading for, or NoTarget
    scrollPending,    \* a scroll event is due for the container
    isTransitioning,  \* useRef isTransitioning (the transition lock)
    lockTimers,       \* pending 750 ms release timers
    clickTimers,      \* pending setTimeout(0) scrolls of handleExhibitClick
    mainBg,           \* mainRef.current.style.backgroundColor
    mainTransition,   \* mainRef.current.style.transition
    bodyBg,           \* document.body.style.backgroundColor
    bodyTransition,   \* document.body.style.transition
    themeColor,       \* content of meta[name='theme-color']
    title,            \* document.title
    mixArgs,          \* arguments and result of the interpolateColor call
                      \* followed by ColorSpec, NoCall elsewhere
    proxyRun,         \* the fetch through the proxy chain followed by
                      \* FetchSpec, NoFetch elsewhere
    sinceClick        \* ArrowRight presses since the card click that opened
                      \* the detail view, while nothing else was input

reactVars == <<loading, error, exhibits, creativeCalls, selectedExhibit, currentIndex>>
renderVars == <<rSelected, rIndex>>
histVars == <<hist, pos>>
scrollVars == <<scrollLeft, scrollTarget, scrollPending>>
timerVars == <<isTransitioning, lockTimers, clickTimers>>
styleVars == <<mainBg, mainTransition, bodyBg, bodyTransition, themeColor>>

vars == <<reactVars, renderVars, histVars, scrollVars, timerVars, styleVars,
          title, mixArgs, proxyRun, sinceClick>>

NoFetch == [caller |-> "", responses |-> <<>>, requested |-> <<>>, data |-> "",
            lastError |-> "", settled |-> "", value |-> 0, error |-> ""]

NoCall == [c1 |-> <<>>, c2 |-> <<>>, num |-> 0 - 1, out |-> <<>>]

NoTarget == 0 - 1

\* sinceClick outside a run of ArrowRight presses that follows a card click
NoRun == [from |-> 0, k |-> 0 - 1, inOrder |-> FALSE]

\* sinceClick after a popstate that arrived while the data was loading
PoppedEarly == [from |-> 0, k |-> 0 - 2, inOrder |-> FALSE]

\* a step that is no user input: timers, scroll events of programmatic
\* scrolls, re-renders
Background == sinceClick' = sinceClick

\* a user input other than the card click and ArrowRight
Input == sinceClick' = NoRun

\* the carousel container is in the document: the detail branch of the
\* last render (not loading, no error, an exhibit selected)
Mounted(ld, err, sel) == ~ld /\ ~err /\ sel # NoExhibit

IsMounted == Mounted(loading, error, rSelected)

\* largest scrollLeft of the container: one page per navigable slide
MaxScroll(sel) ==
    IF NavigableCount(sel) = 0 THEN 0
    ELSE (NavigableCount(sel) - 1) * ClientWidth

\* the longest gallery of the catalogue and its largest offset
MaxSlides ==
    CHOOSE n \in {NavigableCount(e.identifier) : e \in Catalogue} :
        \A e \in Catalogue : NavigableCount(e.identifier) <= n
MaxOffset == (MaxSlides - 1) * ClientWidth

Clamp(x, lo, hi) == IF x < lo THEN lo ELSE IF x > hi THEN hi ELSE x

CurrentUrl == hist[pos]

\* the 0 ms timer of a card click runs before any input that arrives after
\* the click, and before the 750 ms timers
NoClickScrollDue == clickTimers = <<>>

\* pushState with the new URL written over the current entry
pushStateOverwrites(u) ==
    /\ hist' = [hist EXCEPT ![pos] = u]
    /\ pos' = pos

\* window.history.pushState({}, '', u): drops the forward entries
pushState(u) ==
    /\ hist' = Append(SubSeq(hist, 1, pos), u)
    /\ pos' = pos + 1

\* replaceState adding an entry, as pushState does
replaceStateAppends(u) ==
    /\ hist' = Append(SubSeq(hist, 1, pos), u)
    /\ pos' = pos + 1

\* window.history.replaceState({}, '', u)
replaceState(u) ==
    /\ hist' = [hist EXCEPT ![pos] = u]
    /\ pos' = pos

\* ------------------------------------------------------------------------
\* Render: React commits the state and runs the effects whose dependencies
\* changed (instant scroll on exhibit change, document title, Home <->
\* Detail styles and the transition lock)
\* ------------------------------------------------------------------------
\* galleryColors[currentIndex] || galleryColors[0]
InitialColor(sel, idx) ==
    LET colors == galleryColors(sel)
    IN  IF idx + 1 \in 1..Len(colors) THEN colors[idx + 1]
        ELSE IF Len(colors) > 0 THEN colors[1] ELSE NoColor

\* the effect on [selectedExhibit] that scrolls the carousel instantly
ScrollEffectRuns(sel, ld, err) == sel # rSelected /\ Mounted(ld, err, sel)

RenderScroll(sel, idx, ld, err) ==
    LET kept    == IsMounted /\ Mounted(ld, err, sel)
        before  == IF kept THEN scrollLeft ELSE 0
        base    == Clamp(before, 0, MaxScroll(sel))
        instant == ScrollEffectRuns(sel, ld, err)
        left    == IF instant
                   THEN Clamp(ClientWidth * idx, 0, MaxScroll(sel)) ELSE base
    IN  /\ scrollLeft' = left
        /\ scrollTarget' = IF kept /\ ~instant THEN scrollTarget ELSE NoTarget
        /\ scrollPending' = (Mounted(ld, err, sel)
                             /\ ((kept /\ scrollPending) \/ left # before))

\* the effect entering Detail without the animated transition style
RenderStylesNoAnimation(sel, idx) ==
    LET changed == sel # rSelected
        initialColor == InitialColor(sel, idx)
    IN  IF changed /\ sel = NoExhibit
        THEN /\ mainTransition' = ""
             /\ mainBg' = Cleared
             /\ bodyTransition' = ""
             /\ bodyBg' = CssColor(HomeBg)
             /\ themeColor' = CssColor(HomeBg)
             /\ UNCHANGED <<isTransitioning, lockTimers>>
        ELSE IF changed /\ initialColor # NoColor
        THEN /\ lockTimers < MaxLockTimers
             /\ isTransitioning' = TRUE
             /\ mainBg' = CssColor(initialColor)
             /\ bodyBg' = CssColor(initialColor)
             /\ themeColor' = CssColor(initialColor)
             /\ lockTimers' = lockTimers + 1
             /\ UNCHANGED <<mainTransition, bodyTransition>>
        ELSE /\ mainBg' = IF changed /\ rSelected = NoExhibit THEN Cleared ELSE mainBg
             /\ UNCHANGED <<mainTransition, bodyTransition, bodyBg, themeColor,
                            isTransitioning, lockTimers>>

\* the effect on [selectedExhibit, appBgColor]
RenderStyles(sel, idx) ==
    LET changed == sel # rSelected
        initialColor == InitialColor(sel, idx)
    IN  IF changed /\ sel = NoExhibit
        THEN \* Returning to Home: clear manual styles
             /\ mainTransition' = ""
             /\ mainBg' = Cleared
             /\ bodyTransition' = ""
             /\ bodyBg' = CssColor(HomeBg)
             /\ themeColor' = CssColor(HomeBg)
             /\ UNCHANGED <<isTransitioning, lockTimers>>
        ELSE IF changed /\ initialColor # NoColor
        THEN \* Entering Detail: set initial color immediately, arm the lock
             /\ lockTimers < MaxLockTimers
             /\ isTransitioning' = TRUE
             /\ mainTransition' = AnimatedTransition
             /\ mainBg' = CssColor(initialColor)
             /\ bodyTransition' = AnimatedTransition
             /\ bodyBg' = CssColor(initialColor)
             /\ themeColor' = CssColor(initialColor)
             /\ lockTimers' = lockTimers + 1
        ELSE \* the style prop of the root drops its colour on leaving Home
             /\ mainBg' = IF changed /\ rSelected = NoExhibit THEN Cleared ELSE mainBg
             /\ UNCHANGED <<mainTransition, bodyTransition, bodyBg, themeColor,
                            isTransitioning, lockTimers>>

Render(sel, idx, ld, err) ==
    /\ rSelected' = sel
    /\ rIndex' = idx
    /\ RenderScroll(sel, idx, ld, err)
    /\ RenderStyles(sel, idx)
    /\ title' = TitleFor(sel, idx)

\* ------------------------------------------------------------------------
\* URL state synchronizer
\* ------------------------------------------------------------------------
\* syncStateFromUrl that opens a matched exhibit at slide 0 whatever `slide`
syncStateIgnoringSlide(items, u) ==
    IF u.exhibit \notin {AbsentId, ""}
    THEN IF \E i \in 1..Len(items) : items[i] = u.exhibit
         THEN [sel |-> u.exhibit, idx |-> 0]
         ELSE [sel |-> selectedExhibit, idx |-> currentIndex]
    ELSE [sel |-> NoExhibit, idx |-> 0]

\* syncStateFromUrl(items): the view state it leaves, read from URL u
syncStateFromUrl(items, u) ==
    LET exhibitId  == u.exhibit
        slideIndex == u.slide
        idx        == parseInt(slideIndex)
    IN  IF exhibitId \notin {AbsentId, ""}
        THEN IF \E i \in 1..Len(items) : items[i] = exhibitId
             THEN [sel |-> exhibitId,
                   idx |-> IF slideIndex \notin {AbsentSlide, <<>>}
                              /\ ~idx.isNaN /\ idx.val >= 0
                           THEN idx.val ELSE 0]
             ELSE [sel |-> selectedExhibit, idx |-> currentIndex]
        ELSE [sel |-> NoExhibit, idx |-> 0]

ListOf(outcome) == IF outcome = Rejected THEN <<>> ELSE outcome

\* loadData that raises the blocking error when either fetch failed
loadDataAllOrNothing(w, c) ==
    /\ loading
    /\ LET s == syncStateFromUrl(ListOf(w) \o ListOf(c), CurrentUrl)
           failed == w = Rejected \/ c = Rejected
       IN  /\ exhibits' = ListOf(w)
           /\ error' = failed
           /\ creativeCalls' = ListOf(c)
           /\ selectedExhibit' = s.sel
           /\ currentIndex' = s.idx
           /\ loading' = FALSE
           /\ Render(s.sel, s.idx, FALSE, failed)
    /\ UNCHANGED <<histVars, clickTimers, mixArgs, proxyRun>>
    /\ Input

\* loadData that leaves the weekly list empty
loadDataDropsList(w, c) ==
    /\ loading
    /\ LET s == syncStateFromUrl(ListOf(w) \o ListOf(c), CurrentUrl)
       IN  /\ exhibits' = <<>>
           /\ error' = (w = Rejected)
           /\ creativeCalls' = ListOf(c)
           /\ selectedExhibit' = s.sel
           /\ currentIndex' = s.idx
           /\ loading' = FALSE
           /\ Render(s.sel, s.idx, FALSE, w = Rejected)
    /\ UNCHANGED <<histVars, clickTimers, mixArgs, proxyRun>>
    /\ Input

\* loadData: both fetches have settled, with outcomes w and c
loadData(w, c) ==
    /\ loading
    /\ LET s == syncStateFromUrl(ListOf(w) \o ListOf(c), CurrentUrl)
       IN  /\ exhibits' = ListOf(w)
           /\ error' = (w = Rejected)
           /\ creativeCalls' = ListOf(c)
           /\ selectedExhibit' = s.sel
           /\ currentIndex' = s.idx
           /\ loading' = FALSE
           /\ Render(s.sel, s.idx, FALSE, w = Rejected)
    /\ UNCHANGED <<histVars, clickTimers, mixArgs, proxyRun>>
    /\ Input

\* popstate served by the listener of the mount effect, whose closure holds
\* the empty lists of the first render
handlePopStateStale(p) ==
    /\ NoClickScrollDue
    /\ p \in 1..Len(hist)
    /\ p # pos
    /\ pos' = p
    /\ hist' = hist
    /\ UNCHANGED <<reactVars, renderVars, scrollVars, timerVars, styleVars, title, mixArgs, proxyRun>>
    /\ sinceClick' = IF loading THEN PoppedEarly ELSE NoRun

\* a popstate handler that rewrites the entry it lands on to the bare path
handlePopStateRewrites(p) ==
    /\ NoClickScrollDue
    /\ p \in 1..Len(hist)
    /\ p # pos
    /\ pos' = p
    /\ hist' = [hist EXCEPT ![p] = PathOnly]
    /\ LET allItems == exhibits \o creativeCalls
           s == IF Len(allItems) > 0
                THEN syncStateFromUrl(allItems, hist[p])
                ELSE [sel |-> selectedExhibit, idx |-> currentIndex]
       IN  /\ selectedExhibit' = s.sel
           /\ currentIndex' = s.idx
           /\ Render(s.sel, s.idx, loading, error)
    /\ UNCHANGED <<loading, error, exhibits, creativeCalls, clickTimers, mixArgs, proxyRun>>
    /\ sinceClick' = IF loading THEN PoppedEarly ELSE NoRun

\* the browser moves to history entry p and fires popstate
handlePopState(p) ==
    /\ NoClickScrollDue
    /\ p \in 1..Len(hist)
    /\ p # pos
    /\ pos' = p
    /\ hist' = hist
    /\ LET allItems == exhibits \o creativeCalls
           s == IF Len(allItems) > 0
                THEN syncStateFromUrl(allItems, hist[p])
                ELSE [sel |-> selectedExhibit, idx |-> currentIndex]
       IN  /\ selectedExhibit' = s.sel
           /\ currentIndex' = s.idx
           /\ Render(s.sel, s.idx, loading, error)
    /\ UNCHANGED <<loading, error, exhibits, creativeCalls, clickTimers, mixArgs, proxyRun>>
    /\ sinceClick' = IF loading THEN PoppedEarly ELSE NoRun

\* ------------------------------------------------------------------------
\* Home <-> Detail by explicit user action
\* ------------------------------------------------------------------------
\* ExhibitCard calls onClick(exhibit): initialIndex takes its default
ClickIndices == {0}

\* the cards of the home view (either tab)
Cards == {exhibits[i] : i \in 1..Len(exhibits)}
             \cup {creativeCalls[i] : i \in 1..Len(creativeCalls)}

handleExhibitClick(exhibit, initialIndex) ==
    /\ NoClickScrollDue
    /\ ~loading /\ ~error /\ rSelected = NoExhibit
    /\ exhibit \in Cards
    /\ pos < MaxHist
    /\ selectedExhibit' = exhibit
    /\ currentIndex' = initialIndex
    /\ pushState(Url(exhibit, toString(initialIndex)))
    /\ clickTimers' = Append(clickTimers, initialIndex)
    /\ Render(exhibit, initialIndex, loading, error)
    /\ UNCHANGED <<loading, error, exhibits, creativeCalls, mixArgs, proxyRun>>
    /\ sinceClick' = [from |-> initialIndex, k |-> 0, inOrder |-> TRUE]

\* back that keeps the index of the view it leaves
handleBackKeepsIndex ==
    /\ NoClickScrollDue
    /\ IsMounted
    /\ pos < MaxHist
    /\ selectedExhibit' = NoExhibit
    /\ currentIndex' = currentIndex
    /\ pushState(PathOnly)
    /\ Render(NoExhibit, currentIndex, loading, error)
    /\ UNCHANGED <<loading, error, exhibits, creativeCalls, clickTimers, mixArgs, proxyRun>>
    /\ Input

\* back by the detail view's background click
handleBack ==
    /\ NoClickScrollDue
    /\ IsMounted
    /\ pos < MaxHist
    /\ selectedExhibit' = NoExhibit
    /\ currentIndex' = 0
    /\ pushState(PathOnly)
    /\ Render(NoExhibit, 0, loading, error)
    /\ UNCHANGED <<loading, error, exhibits, creativeCalls, clickTimers, mixArgs, proxyRun>>
    /\ Input

\* ------------------------------------------------------------------------
\* Scroll-index mapper and the scroll handler
\* ------------------------------------------------------------------------
Min(a, b) == IF a < b THEN a ELSE b
Max(a, b) == IF a > b THEN a ELSE b

\* Math.round(scrollLeft / clientWidth), clientWidth > 0
DiscreteIndex(left, width) == Round(left, width)

\* the pair with the second lookup index taken to be the first
InterpolationPairOneColour(left, width, maxIndex) ==
    LET index1 == Floor(left, width)
        index2 == Min(index1 + 1, maxIndex)
    IN  [index1 |-> index1, index2 |-> index2,
         num |-> left - index1 * width, den |-> width,
         safeIndex1 |-> Max(0, Min(index1, maxIndex)),
         safeIndex2 |-> Max(0, Min(index1, maxIndex))]

\* index1, index2, factor and the clamped lookup indices of handleScroll
InterpolationPair(left, width, maxIndex) ==
    LET index1 == Floor(left, width)
        index2 == Min(index1 + 1, maxIndex)
    IN  [index1 |-> index1, index2 |-> index2,
         num |-> left - index1 * width, den |-> width,
         safeIndex1 |-> Max(0, Min(index1, maxIndex)),
         safeIndex2 |-> Max(0, Min(index2, maxIndex))]

\* the colour handleScroll applies at offset left
ScrollColor(sel, left) ==
    LET colors == galleryColors(sel)
        p == InterpolationPair(left, ClientWidth, Len(colors) - 1)
    IN  interpolateColor(colors[p.safeIndex1 + 1], colors[p.safeIndex2 + 1],
                         p.num, p.den)

\* a scroll handler that writes the colour only when the index changed
handleScrollOnIndexChange ==
    /\ NoClickScrollDue
    /\ IsMounted
    /\ scrollPending
    /\ scrollPending' = FALSE
    /\ LET index == DiscreteIndex(scrollLeft, ClientWidth)
       IN  IF index # rIndex
           THEN /\ currentIndex' = index
                /\ IF rSelected # NoExhibit
                   THEN replaceState(Url(rSelected, toString(index)))
                   ELSE UNCHANGED histVars
           ELSE UNCHANGED <<currentIndex, histVars>>
    /\ IF Len(galleryColors(rSelected)) > 0
          /\ DiscreteIndex(scrollLeft, ClientWidth) # rIndex
       THEN LET newColor == ScrollColor(rSelected, scrollLeft)
            IN  /\ mainTransition' = IF ~isTransitioning THEN "none" ELSE mainTransition
                /\ mainBg' = newColor
                /\ bodyTransition' = IF ~isTransitioning THEN "none" ELSE bodyTransition
                /\ bodyBg' = newColor
                /\ themeColor' = newColor
       ELSE UNCHANGED styleVars
    /\ UNCHANGED <<loading, error, exhibits, creativeCalls, selectedExhibit,
                   renderVars, scrollLeft, scrollTarget, timerVars, title, mixArgs, proxyRun>>
    /\ Background

\* onScroll of the carousel container; the closure holds rSelected, rIndex
handleScroll ==
    /\ NoClickScrollDue
    /\ IsMounted
    /\ scrollPending
    /\ scrollPending' = FALSE
    /\ LET index == DiscreteIndex(scrollLeft, ClientWidth)
       IN  IF index # rIndex
           THEN /\ currentIndex' = index
                /\ IF rSelected # NoExhibit
                   THEN replaceState(Url(rSelected, toString(index)))
                   ELSE UNCHANGED histVars
           ELSE UNCHANGED <<currentIndex, histVars>>
    /\ IF Len(galleryColors(rSelected)) > 0
       THEN LET newColor == ScrollColor(rSelected, scrollLeft)
            IN  /\ mainTransition' = IF ~isTransitioning THEN "none" ELSE mainTransition
                /\ mainBg' = newColor
                /\ bodyTransition' = IF ~isTransitioning THEN "none" ELSE bodyTransition
                /\ bodyBg' = newColor
                /\ themeColor' = newColor
       ELSE UNCHANGED styleVars
    /\ UNCHANGED <<loading, error, exhibits, creativeCalls, selectedExhibit,
                   renderVars, scrollLeft, scrollTarget, timerVars, title, mixArgs, proxyRun>>
    /\ Background

\* the browser delivers the pending scroll event to onScroll: the guard of
\* handleScroll and the flag its run clears. Weak fairness of this step on
\* scrollPending is weak fairness of handleScroll: both say that the event
\* does not stay pending forever
ScrollEventDelivered ==
    /\ NoClickScrollDue
    /\ IsMounted
    /\ scrollPending
    /\ scrollPending' = FALSE

\* the re-render React schedules after a scroll handler set the index
Rerender ==
    /\ currentIndex # rIndex \/ selectedExhibit # rSelected
    /\ Render(selectedExhibit, currentIndex, loading, error)
    /\ UNCHANGED <<reactVars, histVars, clickTimers, mixArgs, proxyRun>>
    /\ Background

\* the value Math.round(0 / 0) stores in the index: NaN, kept apart from
\* every index
NaN == 0 - 2

\* String(NaN)
NaNString == <<"N", "a", "N">>

\* onScroll while the container's clientWidth is 0 (it has no scroll range,
\* so scrollLeft is 0): index = Math.round(0 / 0) is NaN and differs from
\* every closure index, so it is stored and written to the URL; with a
\* non-empty colour sequence galleryColors[NaN] is undefined and hexToRgb
\* throws on it before any style is written
handleScrollCollapsed ==
    /\ NoClickScrollDue
    /\ IsMounted
    /\ scrollLeft' = 0
    /\ scrollTarget' = NoTarget
    /\ scrollPending' = FALSE
    /\ currentIndex' = NaN
    /\ replaceState(Url(rSelected, NaNString))
    /\ UNCHANGED <<loading, error, exhibits, creativeCalls, selectedExhibit,
                   renderVars, timerVars, styleVars, title, mixArgs, proxyRun>>
    /\ Background

\* the user drags or swipes the carousel by one unit, to offset x; moves
\* made before the scroll event is handled are coalesced into that event
UserScroll(x) ==
    /\ NoClickScrollDue
    /\ IsMounted
    /\ x \in 0..MaxScroll(rSelected)
    /\ x \in {scrollLeft - 1, scrollLeft + 1}
    /\ scrollLeft' = x
    /\ scrollTarget' = NoTarget
    /\ scrollPending' = TRUE
    /\ UNCHANGED <<reactVars, renderVars, histVars, timerVars, styleVars, title, mixArgs, proxyRun>>
    /\ Input

\* elastic overscroll: the browser lets a drag pull the carousel by one
\* unit, to offset x, below 0 or beyond the last page (by up to one page
\* width) and reports that offset in scrollLeft
Overscroll(x) ==
    /\ NoClickScrollDue
    /\ IsMounted
    /\ x \in (0 - ClientWidth)..(MaxScroll(rSelected) + ClientWidth)
    /\ x \notin 0..MaxScroll(rSelected)
    /\ x \in {scrollLeft - 1, scrollLeft + 1}
    /\ scrollLeft' = x
    /\ scrollTarget' = NoTarget
    /\ scrollPending' = TRUE
    /\ UNCHANGED <<reactVars, renderVars, histVars, timerVars, styleVars, title, mixArgs, proxyRun>>
    /\ Input

\* a smooth scroll advances by one unit, to offset x, towards its target
SmoothScrollStep(x) ==
    /\ NoClickScrollDue
    /\ IsMounted
    /\ scrollTarget # NoTarget
    /\ x = IF scrollTarget > scrollLeft THEN scrollLeft + 1 ELSE scrollLeft - 1
    /\ scrollLeft' = x
    /\ scrollTarget' = IF x = scrollTarget THEN NoTarget ELSE scrollTarget
    /\ scrollPending' = TRUE
    /\ UNCHANGED <<reactVars, renderVars, histVars, timerVars, styleVars, title, mixArgs, proxyRun>>
    /\ Background

\* ------------------------------------------------------------------------
\* Discrete navigation
\* ------------------------------------------------------------------------
\* scrollContainerRef.current.scrollTo({left: width * index, behavior: 'smooth'})
scrollToIndex(index) ==
    IF IsMounted
    THEN LET dest == Clamp(ClientWidth * index, 0, MaxScroll(rSelected))
         IN  /\ scrollTarget' = IF dest = scrollLeft THEN NoTarget ELSE dest
             /\ UNCHANGED <<scrollLeft, scrollPending>>
    ELSE UNCHANGED scrollVars

\* nextSlide scrolling to the current slide instead of the next
nextSlideStays == scrollToIndex(rIndex)

nextSlide ==
    IF rIndex < Len(galleryItems(rSelected)) - 1
    THEN scrollToIndex(rIndex + 1)
    ELSE UNCHANGED scrollVars

\* prevSlide without its test for the first slide
prevSlideUnguarded == scrollToIndex(rIndex - 1)

prevSlide ==
    IF rIndex > 0 THEN scrollToIndex(rIndex - 1) ELSE UNCHANGED scrollVars

handleKeyDown(key) ==
    IF key = "ArrowLeft" THEN prevSlide
    ELSE IF key = "ArrowRight" THEN nextSlide
    ELSE UNCHANGED scrollVars

Keys == {"ArrowLeft", "ArrowRight", "Escape"}

NavFrame == UNCHANGED <<reactVars, renderVars, histVars, timerVars, styleVars, title, mixArgs, proxyRun>>

\* sinceClick after one more ArrowRight press: the run goes on while the
\* presses stay within the gallery; inOrder records that every press found
\* the rendered index at entry index + earlier presses
PressedRight ==
    IF sinceClick.k >= 0
       /\ sinceClick.from + sinceClick.k + 1 <= Len(galleryItems(rSelected)) - 1
    THEN [from |-> sinceClick.from, k |-> sinceClick.k + 1,
          inOrder |-> sinceClick.inOrder /\ rIndex = sinceClick.from + sinceClick.k]
    ELSE NoRun

\* a key listener that is always registered and sets the index itself
KeyDownSetsIndex(key) ==
    /\ NoClickScrollDue
    /\ currentIndex' = IF key = "ArrowRight" /\ currentIndex < MaxSlides
                       THEN currentIndex + 1 ELSE currentIndex
    /\ UNCHANGED <<loading, error, exhibits, creativeCalls, selectedExhibit,
                   renderVars, histVars, scrollVars, timerVars, styleVars, title,
                   mixArgs, proxyRun>>
    /\ sinceClick' = NoRun

\* a key press on the window; the listener exists while an exhibit is selected
KeyDown(key) ==
    /\ NoClickScrollDue
    /\ IF rSelected # NoExhibit THEN handleKeyDown(key) ELSE UNCHANGED scrollVars
    /\ NavFrame
    /\ sinceClick' = IF key = "ArrowRight" THEN PressedRight ELSE NoRun

\* the right arrow button (disabled at the last slide)
NextButton ==
    /\ NoClickScrollDue
    /\ IsMounted
    /\ rIndex # Len(galleryItems(rSelected)) - 1
    /\ nextSlide
    /\ NavFrame
    /\ Input

\* the left arrow button (disabled at slide 0)
PrevButton ==
    /\ NoClickScrollDue
    /\ IsMounted
    /\ rIndex # 0
    /\ prevSlide
    /\ NavFrame
    /\ Input

\* one of the dots
DotClick(idx) ==
    /\ NoClickScrollDue
    /\ IsMounted
    /\ idx \in 0..(Len(galleryItems(rSelected)) - 1)
    /\ scrollToIndex(idx)
    /\ NavFrame
    /\ Input

\* ------------------------------------------------------------------------
\* Timers and reload
\* ------------------------------------------------------------------------
\* the setTimeout(.., 0) of handleExhibitClick: force scroll after render
ClickTimerFires ==
    /\ clickTimers # <<>>
    /\ clickTimers' = Tail(clickTimers)
    /\ IF IsMounted
       THEN LET dest == Clamp(ClientWidth * Head(clickTimers), 0, MaxScroll(rSelected))
            IN  /\ scrollLeft' = dest
                /\ scrollTarget' = NoTarget
                /\ scrollPending' = (scrollPending \/ dest # scrollLeft)
       ELSE UNCHANGED scrollVars
    /\ UNCHANGED <<reactVars, renderVars, histVars, isTransitioning, lockTimers,
                   styleVars, title, mixArgs, proxyRun>>
    /\ Background

\* a release timer that also re-applies the fallback exhibit colour
LockTimerRepaints ==
    /\ NoClickScrollDue
    /\ lockTimers > 0
    /\ lockTimers' = lockTimers - 1
    /\ isTransitioning' = FALSE
    /\ mainBg' = CssColor(DefaultColor)
    /\ bodyBg' = CssColor(DefaultColor)
    /\ UNCHANGED <<reactVars, renderVars, histVars, scrollVars, clickTimers,
                   mainTransition, bodyTransition, themeColor, title, mixArgs, proxyRun>>
    /\ Background

\* a release timer that is dropped when the view is Home at its time
LockTimerFiresInDetail ==
    /\ NoClickScrollDue
    /\ lockTimers > 0
    /\ lockTimers' = lockTimers - 1
    /\ isTransitioning' = IF rSelected # NoExhibit THEN FALSE ELSE isTransitioning
    /\ UNCHANGED <<reactVars, renderVars, histVars, scrollVars, clickTimers,
                   styleVars, title, mixArgs, proxyRun>>
    /\ Background

\* the setTimeout(.., 750) that releases the transition lock
LockTimerFires ==
    /\ NoClickScrollDue
    /\ lockTimers > 0
    /\ lockTimers' = lockTimers - 1
    /\ isTransitioning' = FALSE
    /\ UNCHANGED <<reactVars, renderVars, histVars, scrollVars, clickTimers,
                   styleVars, title, mixArgs, proxyRun>>
    /\ Background

\* the state of a freshly mounted App on history h at entry p
Mount(h, p) ==
    /\ loading' = TRUE
    /\ error' = FALSE
    /\ exhibits' = <<>>
    /\ creativeCalls' = <<>>
    /\ selectedExhibit' = NoExhibit
    /\ currentIndex' = 0
    /\ rSelected' = NoExhibit
    /\ rIndex' = 0
    /\ hist' = h
    /\ pos' = p
    /\ scrollLeft' = 0
    /\ scrollTarget' = NoTarget
    /\ scrollPending' = FALSE
    /\ isTransitioning' = FALSE
    /\ lockTimers' = 0
    /\ clickTimers' = <<>>
    /\ mainBg' = Cleared
    /\ mainTransition' = ""
    /\ bodyBg' = CssColor(HomeBg)
    /\ bodyTransition' = ""
    /\ themeColor' = CssColor(HomeBg)
    /\ title' = <<BaseTitle>>
    /\ mixArgs' = NoCall
    /\ proxyRun' = NoFetch

\* the Retry button of the error view: window.location.reload()
Retry ==
    /\ ~loading /\ error
    /\ Mount(hist, pos)
    /\ Input

\* the user reloads the page: the document is loaded anew on the current
\* entry and the session history is kept
Reload ==
    /\ ~loading /\ ~error
    /\ Len(hist) > 1
    /\ Mount(hist, pos)
    /\ Input

\* the App as first mounted: loading, Home, home styles
Fresh ==
    /\ loading = TRUE
    /\ error = FALSE
    /\ exhibits = <<>>
    /\ creativeCalls = <<>>
    /\ selectedExhibit = NoExhibit
    /\ currentIndex = 0
    /\ rSelected = NoExhibit
    /\ rIndex = 0
    /\ pos = 1
    /\ scrollLeft = 0
    /\ scrollTarget = NoTarget
    /\ scrollPending = FALSE
    /\ isTransitioning = FALSE
    /\ lockTimers = 0
    /\ clickTimers = <<>>
    /\ mainBg = Cleared
    /\ mainTransition = ""
    /\ bodyBg = CssColor(HomeBg)
    /\ bodyTransition = ""
    /\ themeColor = CssColor(HomeBg)
    /\ title = <<BaseTitle>>
    /\ sinceClick = NoRun

\* no interpolateColor call and no fetch is being followed
Idle == mixArgs = NoCall /\ proxyRun = NoFetch

Init ==
    /\ hist \in {<<u>> : u \in DeepLinks}
    /\ Fresh
    /\ Idle

Next ==
    \/ \E w \in WeeklyOutcomes, c \in CreativeOutcomes : loadData(w, c)
    \/ \E p \in 1..MaxHist : handlePopState(p)
    \/ \E e \in Identifiers, i \in ClickIndices : handleExhibitClick(e, i)
    \/ handleBack
    \/ handleScroll
    \/ Rerender
    \/ \E x \in 0..MaxOffset : UserScroll(x)
    \/ \E x \in 0..MaxOffset : SmoothScrollStep(x)
    \/ \E key \in Keys : KeyDown(key)
    \/ NextButton
    \/ PrevButton
    \/ \E idx \in 0..MaxSlides - 1 : DotClick(idx)
    \/ ClickTimerFires
    \/ LockTimerFires
    \/ Retry
    \/ Reload

Spec == Init /\ [][Next]_vars

\* ------------------------------------------------------------------------
\* Data arrival alone, on every URL of UrlInputs
\* ------------------------------------------------------------------------
LoadInit ==
    /\ hist \in {<<u>> : u \in UrlInputs}
    /\ Fresh
    /\ Idle

LoadNext ==
    \/ \E w \in WeeklyOutcomes, c \in CreativeOutcomes : loadData(w, c)
    \/ Retry

LoadSpec == LoadInit /\ [][LoadNext]_vars

\* ------------------------------------------------------------------------
\* Data arrival followed by scroll events on a container of width 0
\* ------------------------------------------------------------------------
CollapsedNext ==
    \/ \E w \in WeeklyOutcomes, c \in CreativeOutcomes : loadData(w, c)
    \/ handleScrollCollapsed

CollapsedSpec == LoadInit /\ [][CollapsedNext]_vars

\* ------------------------------------------------------------------------
\* Retry from the error view; the fetches of a load settle
\* ------------------------------------------------------------------------
\* the error view after a load whose weekly fetch failed, on a URL that
\* names no exhibit of the creative list
ErrorShown ==
    /\ loading = FALSE
    /\ error = TRUE
    /\ exhibits = <<>>
    /\ creativeCalls \in {ListOf(c) : c \in CreativeOutcomes}
    /\ selectedExhibit = NoExhibit
    /\ currentIndex = 0
    /\ rSelected = NoExhibit
    /\ rIndex = 0
    /\ pos = 1
    /\ scrollLeft = 0
    /\ scrollTarget = NoTarget
    /\ scrollPending = FALSE
    /\ isTransitioning = FALSE
    /\ lockTimers = 0
    /\ clickTimers = <<>>
    /\ mainBg = Cleared
    /\ mainTransition = ""
    /\ bodyBg = CssColor(HomeBg)
    /\ bodyTransition = ""
    /\ themeColor = CssColor(HomeBg)
    /\ title = <<BaseTitle>>
    /\ sinceClick = NoRun

RetryInit ==
    /\ hist \in {<<u>> : u \in {x \in UrlInputs : x.exhibit # "c"}}
    /\ ErrorShown
    /\ Idle

RetryNext ==
    \/ Retry
    \/ \E w \in WeeklyOutcomes, c \in CreativeOutcomes : loadData(w, c)

\* Promise.allSettled settles: each fetch ends with a result or an error
RetrySpec ==
    /\ RetryInit
    /\ [][RetryNext]_vars
    /\ WF_vars(\E w \in WeeklyOutcomes, c \in CreativeOutcomes : loadData(w, c))

\* ------------------------------------------------------------------------
\* Entry into a detail view by URL: deep link or popstate to an exhibit
\* with a slide parameter, followed by the scroll events of the entry
\* ------------------------------------------------------------------------
\* URLs naming an exhibit of the catalogue with a slide within and beyond
\* its gallery
EntryUrls == {Url(x, <<d>>) : x \in Identifiers, d \in {"0", "1", "2", "5"}}

\* opened on the URL itself, or on the bare path with the URL one step
\* forward in the session history
EntryInit ==
    /\ hist \in {<<u>> : u \in EntryUrls} \cup {<<PathOnly, u>> : u \in EntryUrls}
    /\ Fresh
    /\ Idle

EntryNext ==
    \/ \E w \in WeeklyOutcomes, c \in CreativeOutcomes : loadData(w, c)
    \/ \E p \in 1..MaxHist : handlePopState(p)
    \/ handleScroll
    \/ Rerender

\* a pending scroll event is delivered and a scheduled re-render runs;
\* popstate is the user's
EntrySpec ==
    /\ EntryInit
    /\ [][EntryNext]_vars
    /\ WF_scrollPending(ScrollEventDelivered)
    /\ WF_vars(Rerender)

\* ------------------------------------------------------------------------
\* Home <-> Detail and the timers of the transition lock
\* ------------------------------------------------------------------------
LockNext ==
    \/ \E w \in WeeklyOutcomes, c \in CreativeOutcomes : loadData(w, c)
    \/ \E p \in 1..MaxHist : handlePopState(p)
    \/ \E e \in Identifiers, i \in ClickIndices : handleExhibitClick(e, i)
    \/ handleBack
    \/ ClickTimerFires
    \/ LockTimerFires

\* a timer that was set fires: the 0 ms timer of a card click and the
\* 750 ms release timer (the effect sets it without a cleanup)
LockSpec ==
    /\ Init
    /\ [][LockNext]_vars
    /\ WF_vars(ClickTimerFires)
    /\ WF_vars(LockTimerFires)

\* ------------------------------------------------------------------------
\* Discrete navigation in a detail view opened by URL
\* ------------------------------------------------------------------------
\* a discrete navigation request: dot, arrow button or arrow key
NavRequest ==
    \/ \E idx \in 0..MaxSlides - 1 : DotClick(idx)
    \/ \E key \in Keys : KeyDown(key)
    \/ NextButton
    \/ PrevButton

NavNext ==
    \/ \E w \in WeeklyOutcomes, c \in CreativeOutcomes : loadData(w, c)
    \/ \E idx \in 0..MaxSlides - 1 : DotClick(idx)
    \/ \E key \in Keys : KeyDown(key)
    \/ NextButton
    \/ PrevButton
    \/ \E x \in 0..MaxOffset : SmoothScrollStep(x)
    \/ handleScroll
    \/ Rerender
    \/ LockTimerFires

\* a smooth scroll goes on to its target, a pending scroll event is
\* delivered and a scheduled re-render runs; the requests are the user's
NavSpec ==
    /\ Init
    /\ [][NavNext]_vars
    /\ WF_vars(\E x \in 0..MaxOffset : SmoothScrollStep(x))
    /\ WF_scrollPending(ScrollEventDelivered)
    /\ WF_vars(Rerender)

\* ------------------------------------------------------------------------
\* The fetch through the CORS-proxy chain (services/api)
\* ------------------------------------------------------------------------
\* the strategies of fetchJsonWithProxies, in their order
Strategies == <<"corsproxy.io", "allorigins.win">>

\* what a proxy answers: fetch rejects, a status that is not OK, a body
\* that is not JSON, JSON without `result`, JSON with `result`
ProxyResponses == {"NetworkError", "HttpError", "BadJson", "NoResult", "Result"}

Callers == {"fetchExhibits", "fetchCreativeCalls"}

InvalidFormat == "Invalid API response format"

FetchInit ==
    /\ hist = <<PathOnly>>
    /\ Fresh
    /\ mixArgs = NoCall
    /\ proxyRun \in {[NoFetch EXCEPT !.caller = f, !.responses = <<r1, r2>>] :
                        f \in Callers, r1 \in ProxyResponses, r2 \in ProxyResponses}

FetchFrame ==
    UNCHANGED <<reactVars, renderVars, histVars, scrollVars, timerVars,
                styleVars, title, mixArgs, sinceClick>>

\* one pass of the loop of fetchJsonWithProxies: request the next strategy;
\* a rejected fetch, a status that is not OK and a body response.json()
\* rejects are caught and recorded, anything else is returned
fetchAttempt ==
    /\ proxyRun.caller # ""
    /\ proxyRun.settled = "" /\ proxyRun.data = ""
    /\ Len(proxyRun.requested) < Len(Strategies)
    /\ LET i == Len(proxyRun.requested) + 1
           r == proxyRun.responses[i]
       IN  proxyRun' =
               IF r \in {"NetworkError", "HttpError", "BadJson"}
               THEN [proxyRun EXCEPT !.requested = Append(@, Strategies[i]),
                                     !.lastError = r]
               ELSE [proxyRun EXCEPT !.requested = Append(@, Strategies[i]),
                                     !.data = r, !.value = i]
    /\ FetchFrame

\* after the loop: throw lastError
allStrategiesFailed ==
    /\ proxyRun.caller # ""
    /\ proxyRun.settled = "" /\ proxyRun.data = ""
    /\ Len(proxyRun.requested) = Len(Strategies)
    /\ proxyRun' = [proxyRun EXCEPT !.settled = "rejected", !.error = proxyRun.lastError]
    /\ FetchFrame

\* fetchExhibits / fetchCreativeCalls after fetchJsonWithProxies returned:
\* `if (!data || !data.result) throw`, else the list is returned
fetchValidates ==
    /\ proxyRun.caller # ""
    /\ proxyRun.settled = "" /\ proxyRun.data # ""
    /\ proxyRun' =
           IF proxyRun.data = "NoResult"
           THEN [proxyRun EXCEPT !.settled = "rejected", !.error = InvalidFormat]
           ELSE [proxyRun EXCEPT !.settled = "fulfilled"]
    /\ FetchFrame

FetchNext ==
    \/ fetchAttempt
    \/ allStrategiesFailed
    \/ fetchValidates

FetchSpec == FetchInit /\ [][FetchNext]_vars

\* ------------------------------------------------------------------------
\* interpolateColor on pairs of hex colours
\* ------------------------------------------------------------------------
\* digits the 3-digit colours are built from, and channels of the 6-digit
\* ones; either case
ShortDigits == {"0", "9", "F"}

LongChannels == {<<"1", "e">>, <<"C", "0">>}

HexBodies ==
    {<<a, b, c>> : a \in ShortDigits, b \in ShortDigits, c \in ShortDigits}
        \cup {x \o y \o z : x \in LongChannels, y \in LongChannels, z \in LongChannels}

\* 3-digit and 6-digit colours, with and without '#'
HexInputs == HexBodies \cup {<<"#">> \o h : h \in HexBodies}

ColorInit ==
    /\ hist = <<PathOnly>>
    /\ Fresh
    /\ mixArgs \in {[c1 |-> a, c2 |-> b, num |-> 0 - 1, out |-> <<>>] :
                        a \in HexInputs, b \in HexInputs}
    /\ proxyRun = NoFetch

\* interpolateColor(c1, c2, num / ClientWidth) is called and returns
Interpolate(num) ==
    /\ mixArgs # NoCall
    /\ mixArgs' = [mixArgs EXCEPT
                      !.num = num,
                      !.out = interpolateColor(mixArgs.c1, mixArgs.c2, num, ClientWidth)]
    /\ UNCHANGED <<reactVars, renderVars, histVars, scrollVars, timerVars,
                   styleVars, title, proxyRun, sinceClick>>

ColorNext == \E num \in 0..ClientWidth : Interpolate(num)

ColorSpec == ColorInit /\ [][ColorNext]_vars

\* ------------------------------------------------------------------------
\* Scrolling in a browser with elastic overscroll
\* ------------------------------------------------------------------------
ElasticNext ==
    \/ \E w \in WeeklyOutcomes, c \in CreativeOutcomes : loadData(w, c)
    \/ \E x \in 0..MaxOffset : UserScroll(x)
    \/ \E x \in (0 - ClientWidth)..(MaxOffset + ClientWidth) : Overscroll(x)
    \/ handleScroll
    \/ Rerender
    \/ \E e \in Identifiers, i \in ClickIndices : handleExhibitClick(e, i)
    \/ ClickTimerFires
    \/ LockTimerFires

ElasticSpec == Init /\ [][ElasticNext]_vars

\* ------------------------------------------------------------------------
\* Properties
\* ------------------------------------------------------------------------
IsDetail == selectedExhibit # NoExhibit

\* the exhibit lists as loaded
Loaded == exhibits \o creativeCalls

IsLoaded(id) == \E i \in 1..Len(Loaded) : Loaded[i] = id

\* a step in which syncStateFromUrl runs: data arrival, or a popstate once
\* a list has loaded
SyncStep ==
    \/ \E w \in WeeklyOutcomes, c \in CreativeOutcomes : loadData(w, c)
    \/ Len(Loaded) > 0 /\ \E p \in 1..MaxHist : handlePopState(p)

\* the data arrives
DataArrives == \E w \in WeeklyOutcomes, c \in CreativeOutcomes : loadData(w, c)

\* a non-empty string of decimal digits
IsNatString(s) == s # <<>> /\ \A i \in 1..Len(s) : s[i] \in Digits

\* nothing is in flight: no smooth scroll, no scroll event due, no render
\* due, no timer of a click
Quiet ==
    /\ scrollTarget = NoTarget
    /\ ~scrollPending
    /\ currentIndex = rIndex
    /\ selectedExhibit = rSelected
    /\ clickTimers = <<>>

\* C1: in every reachable Detail state on an exhibit with N >= 1 navigable
\* slides the current index satisfies 0 <= index < N.
C1_IndexInRange ==
    (IsDetail /\ NavigableCount(selectedExhibit) >= 1)
        => currentIndex \in 0..(NavigableCount(selectedExhibit) - 1)

\* C2: whenever syncStateFromUrl has run and the URL's exhibit parameter is
\* absent or matches no loaded exhibit, the view state is Home.
C2_UnmatchedResolvesHome ==
    [][SyncStep =>
          ((CurrentUrl.exhibit = AbsentId \/ ~IsLoaded(CurrentUrl.exhibit))
              => selectedExhibit = NoExhibit)']_vars

C4_ClickPushesEntry ==
    [][\A e \in Identifiers, i \in ClickIndices :
          handleExhibitClick(e, i) =>
              /\ pos' = pos + 1
              /\ Len(hist') = pos + 1
              /\ SubSeq(hist', 1, pos) = SubSeq(hist, 1, pos)
              /\ hist'[pos'].exhibit = e
              /\ parseInt(hist'[pos'].slide) = [isNaN |-> FALSE, val |-> i]
              /\ selectedExhibit' = e
              /\ currentIndex' = i]_vars

\* exhibit "a" was just opened by a click on its card: the click's timer is
\* still due
C4_Witness ==
    /\ clickTimers # <<>>
    /\ sinceClick.k = 0
    /\ selectedExhibit = "a"
    /\ pos = 2
    /\ CurrentUrl = Url("a", <<"0">>)

\* C5: the back action adds exactly one history entry, whose URL has neither
\* an exhibit nor a slide parameter, and sets the view state to Home, index 0.
C5_BackPushesBarePath ==
    [][handleBack =>
          /\ pos' = pos + 1
          /\ Len(hist') = pos + 1
          /\ SubSeq(hist', 1, pos) = SubSeq(hist, 1, pos)
          /\ hist'[pos'].exhibit = AbsentId
          /\ hist'[pos'].slide = AbsentSlide
          /\ selectedExhibit' = NoExhibit
          /\ currentIndex' = 0]_vars

\* the back action was taken from a deep-linked detail view: the bare path
\* follows the deep link in history and the view is Home
C5_Witness ==
    /\ pos = 2
    /\ Len(hist) = 2
    /\ hist[1].exhibit = "a"
    /\ hist[2].exhibit = AbsentId
    /\ hist[2].slide = AbsentSlide
    /\ selectedExhibit = NoExhibit
    /\ currentIndex = 0

\* in a run of ArrowRight presses history ends at the entry the click pushed
RunKeepsHistory ==
    sinceClick.k >= 0 =>
        /\ IsDetail
        /\ Len(hist) = pos
        /\ CurrentUrl.exhibit = selectedExhibit

\* the run has come to rest at entry index + number of presses
RunArrived ==
    /\ currentIndex = sinceClick.from + sinceClick.k
    /\ CurrentUrl = Url(selectedExhibit, toString(sinceClick.from + sinceClick.k))

\* C6 as claimed: k ArrowRight presses after entering Detail(X, i) from Home,
\* i + k <= lastIndex, end with index i + k and URL slide = i + k and no
\* history entry beyond the one pushed on entry, however the presses
\* interleave with the scroll events.
C6_EveryInterleaving ==
    /\ RunKeepsHistory
    /\ (sinceClick.k >= 0 /\ Quiet) => RunArrived

\* C6 amended: the same, for the presses each made once the view has
\* rendered the index the earlier presses add up to; the history part holds
\* for every interleaving.
C6_PressesInOrder ==
    /\ RunKeepsHistory
    /\ (sinceClick.k >= 0 /\ sinceClick.inOrder /\ Quiet) => RunArrived

\* two ArrowRight presses after opening at slide 0 have come to rest at 2
C6_Witness ==
    /\ sinceClick = [from |-> 0, k |-> 2, inOrder |-> TRUE]
    /\ Quiet
    /\ currentIndex = 2
    /\ CurrentUrl.slide = <<"2">>

\* C7: a browser back to the previous entry, after a detail view was entered
\* from Home by a card click, sets the view state to Home, clears the root's
\* background override and restores the home colour on body and theme-color.
C7_BackAfterClickGoesHome ==
    [][(sinceClick.k = 0 /\ pos > 1 /\ handlePopState(pos - 1)) =>
          /\ selectedExhibit' = NoExhibit
          /\ mainBg' = Cleared
          /\ bodyBg' = CssColor(HomeBg)
          /\ themeColor' = CssColor(HomeBg)]_vars

\* C8: on data arrival a URL ?exhibit=X&slide=k, X loaded with N navigable
\* slides and 0 <= k < N, yields Detail(X, k).
C8_DeepLinkRestores ==
    [][DataArrives =>
          (\A k \in 0..(MaxSlides - 1) :
              (/\ IsLoaded(CurrentUrl.exhibit)
               /\ k < NavigableCount(CurrentUrl.exhibit)
               /\ CurrentUrl.slide = toString(k))
                  => (selectedExhibit = CurrentUrl.exhibit /\ currentIndex = k))']_vars

\* the deep link ?exhibit=a&slide=1 has been resolved
C8_Witness ==
    /\ ~loading
    /\ CurrentUrl = Url("a", <<"1">>)
    /\ IsLoaded("a")
    /\ selectedExhibit = "a"
    /\ currentIndex = 1

\* C9: for a matched exhibit the index resolves to 0 for every slide value
\* that is missing, empty, negative or not a string of decimal digits.
C9_InvalidSlideIsZero ==
    [][DataArrives =>
          ((IsLoaded(CurrentUrl.exhibit) /\ ~IsNatString(CurrentUrl.slide))
              => currentIndex = 0)']_vars

\* C10: in every Detail state an Escape key press returns the view state to
\* Home.
C10_EscapeGoesHome ==
    [][(IsDetail /\ KeyDown("Escape")) => selectedExhibit' = NoExhibit]_vars

\* index of the last navigable slide of exhibit sel
LastIndex(sel) == Len(galleryItems(sel)) - 1

\* a 'next' request and a 'previous' request, by key or by arrow button
NextRequest == KeyDown("ArrowRight") \/ NextButton
PrevRequest == KeyDown("ArrowLeft") \/ PrevButton

\* no scroll is started and view state, URL and history stay as they are
NothingMoves == UNCHANGED <<scrollVars, selectedExhibit, currentIndex, histVars>>

\* C11 as claimed: a 'next' request while the index (of the view state) is
\* the last slide, and a 'previous' request while it is 0, start no scroll
\* and leave view state, URL and history unchanged.
C11_AtStateIndex ==
    [][(IsDetail /\ (\/ currentIndex = LastIndex(selectedExhibit) /\ NextRequest
                     \/ currentIndex = 0 /\ PrevRequest))
          => NothingMoves]_vars

\* C11 amended: the same for the index as the view last rendered it, which
\* is the one the handlers and the arrow buttons read.
C11_AtRenderedIndex ==
    [][(rSelected # NoExhibit /\ (\/ rIndex = LastIndex(rSelected) /\ NextRequest
                                  \/ rIndex = 0 /\ PrevRequest))
          => NothingMoves]_vars

\* exhibit "b" (one slide: index 0 is the first and the last) was opened by
\* a click and took a key press or dot click since; nothing has moved
C11_Witness ==
    /\ rSelected = "b"
    /\ selectedExhibit = "b"
    /\ rIndex = 0
    /\ currentIndex = 0
    /\ sinceClick = NoRun
    /\ clickTimers = <<>>
    /\ scrollLeft = 0
    /\ scrollTarget = NoTarget
    /\ pos = 2
    /\ hist = <<PathOnly, Url("b", <<"0">>)>>

\* a request of discrete navigation: arrow key, arrow button or dot
DiscreteNav ==
    \/ NextRequest
    \/ PrevRequest
    \/ \E idx \in 0..(MaxSlides - 1) : DotClick(idx)

\* C12: the transition lock becomes true on every index change that comes
\* from discrete navigation (a request that starts a scroll, a deep link or
\* browser navigation that changes the index); it is false while the view
\* is Home, and passive scrolling never makes it true.
C12_LockTracksNavigation ==
    [][/\ (DiscreteNav /\ scrollTarget' # NoTarget) => isTransitioning'
       /\ (SyncStep /\ IsDetail' /\ currentIndex' # currentIndex) => isTransitioning'
       /\ ~IsDetail' => ~isTransitioning'
       /\ ((handleScroll \/ \E x \in 0..MaxOffset : UserScroll(x))
              => (isTransitioning' => isTransitioning))]_vars

\* C13: while a release timer of the most recent arming is pending the
\* transition lock is true: a timer of an earlier arming never clears it.
C13_LockHeldUntilLastRelease == lockTimers > 0 => isTransitioning

\* C14: whenever data arrival or a popstate resolves the URL to Detail(X, i),
\* i a slide of X, and so changes the exhibit or the index, the carousel is
\* at offset i * clientWidth and the transition lock is true at the end of
\* the step; also when the view was already Detail(X, j), j # i.
C14_ResolutionScrollsAndArms ==
    [][(/\ SyncStep
        /\ ~loading' /\ ~error'
        /\ IsDetail'
        /\ (selectedExhibit' # selectedExhibit \/ currentIndex' # currentIndex)
        /\ CurrentUrl'.exhibit = selectedExhibit'
        /\ currentIndex' <= LastIndex(selectedExhibit'))
          => (scrollLeft' = ClientWidth * currentIndex' /\ isTransitioning')]_vars

\* C15: on every Home -> Detail(X, i) step for an exhibit with at least
\* one navigable slide, the page root, the body and the theme-color hint
\* carry the colour-sequence entry at index i at the end of that step.
C15_EntryColourInTransition ==
    [][(~IsDetail /\ IsDetail' /\ NavigableCount(selectedExhibit') >= 1) =>
          LET colors == galleryColors(selectedExhibit')
          IN  /\ currentIndex' < Len(colors)
              /\ mainBg' = CssColor(colors[currentIndex' + 1])
              /\ bodyBg' = CssColor(colors[currentIndex' + 1])
              /\ themeColor' = CssColor(colors[currentIndex' + 1])]_vars

\* C16: whenever the view is Home and rendered as Home, the page root has
\* no background or transition override and the body background and the
\* theme-color hint are the home colour; no callback changes that.
C16_HomeHasHomeStyles ==
    (selectedExhibit = NoExhibit /\ rSelected = NoExhibit) =>
        /\ mainBg = Cleared
        /\ mainTransition = ""
        /\ bodyBg = CssColor(HomeBg)
        /\ themeColor = CssColor(HomeBg)

\* Home was reached by the back action from a deep-linked detail view while
\* a release timer of the lock is still to fire
C16_Witness ==
    /\ ~loading
    /\ selectedExhibit = NoExhibit
    /\ rSelected = NoExhibit
    /\ pos = 2
    /\ hist[1].exhibit = "a"
    /\ hist[2] = PathOnly
    /\ lockTimers > 0
    /\ mainBg = Cleared
    /\ bodyBg = CssColor(HomeBg)

\* C17: once the scroll events have stopped (nothing scrolling, no event
\* due, the view rendered), the index is round(scrollLeft / clientWidth)
\* and the URL's slide is that index.
C17_SettledIndexMatchesOffset ==
    (IsMounted /\ Quiet) =>
        /\ currentIndex = DiscreteIndex(scrollLeft, ClientWidth)
        /\ CurrentUrl.exhibit = selectedExhibit =>
               CurrentUrl.slide = toString(DiscreteIndex(scrollLeft, ClientWidth))

\* the index a slide parameter resolves to
ResolvedSlide(slide) ==
    LET n == parseInt(slide)
    IN  IF slide # AbsentSlide /\ ~n.isNaN /\ n.val >= 0 THEN n.val ELSE 0

\* C18: once the exhibits are shown, at the end of every step the URL has an
\* exhibit parameter iff the view is Detail, then that of the selected
\* exhibit, with a slide parameter that resolves to the current index.
C18_UrlAgreesWithView ==
    (~loading /\ ~error) =>
        /\ (CurrentUrl.exhibit # AbsentId) <=> IsDetail
        /\ IsDetail =>
               /\ CurrentUrl.exhibit = selectedExhibit
               /\ ResolvedSlide(CurrentUrl.slide) = currentIndex

\* the view state agrees with the URL where the URL names a loaded exhibit
\* or names none
ResolvedAgainstLoaded ==
    /\ IsLoaded(CurrentUrl.exhibit) => selectedExhibit = CurrentUrl.exhibit
    /\ CurrentUrl.exhibit \in {AbsentId, ""} => selectedExhibit = NoExhibit

C20_ZeroWidthYieldsIndexZero ==
    [][handleScrollCollapsed =>
          /\ currentIndex' = 0
          /\ ResolvedSlide(CurrentUrl'.slide) = 0
          /\ CurrentUrl'.slide # NaNString
          /\ Len(mainBg') = 3]_vars

\* C21: whenever the scroll handler stores an index, overscroll included,
\* it stores round(scrollLeft / clientWidth) clamped into [0, lastIndex].
C21_StoredIndexIsClamped ==
    [][(handleScroll /\ currentIndex' # currentIndex) =>
          currentIndex' = Clamp(Round(scrollLeft, ClientWidth),
                                0, LastIndex(rSelected))]_vars

\* C22: for every offset, overscroll included, the scroll handler mixes
\* the colours at index1 = floor(scrollLeft / clientWidth) and index2 =
\* min(index1 + 1, lastIndex), both clamped into [0, lastIndex], by the
\* fractional part of scrollLeft / clientWidth; with one slide both are 0.
C22_InterpolationPairInRange ==
    [][(handleScroll /\ Len(galleryColors(rSelected)) > 0) =>
          LET colors == galleryColors(rSelected)
              last   == Len(colors) - 1
              i1     == Floor(scrollLeft, ClientWidth)
              i2     == IF i1 + 1 < last THEN i1 + 1 ELSE last
              s1     == Clamp(i1, 0, last)
              s2     == Clamp(i2, 0, last)
              p      == InterpolationPair(scrollLeft, ClientWidth, last)
          IN  /\ p.index1 = i1
              /\ p.index2 = i2
              /\ p.num = scrollLeft - i1 * ClientWidth
              /\ p.den = ClientWidth
              /\ p.safeIndex1 = s1
              /\ p.safeIndex2 = s2
              /\ last = 0 => (p.safeIndex1 = 0 /\ p.safeIndex2 = 0)
              /\ mainBg' = interpolateColor(colors[s1 + 1], colors[s2 + 1],
                                            scrollLeft - i1 * ClientWidth,
                                            ClientWidth)]_vars

\* a scroll event was handled on the single-slide exhibit while it was
\* pulled half a page beyond its only slide
C22_Witness ==
    /\ rSelected = "b"
    /\ IsMounted
    /\ scrollLeft = 1
    /\ ~scrollPending
    /\ currentIndex = 1
    /\ mainBg = CssColor(DefaultColor)

C24_TransitionFollowsLock ==
    [][/\ (handleScroll /\ Len(galleryColors(rSelected)) > 0) =>
              IF isTransitioning
              THEN UNCHANGED <<mainTransition, bodyTransition>>
              ELSE mainTransition' = "none" /\ bodyTransition' = "none"
       /\ (isTransitioning' /\ IsDetail') =>
              (mainTransition' = AnimatedTransition
               /\ bodyTransition' = AnimatedTransition)]_vars

\* a scroll event was handled while the lock was active: the mixed colour
\* is applied and the animated transition is still in place
C24_Witness ==
    /\ isTransitioning
    /\ rSelected = "a"
    /\ scrollLeft = 3
    /\ ~scrollPending
    /\ mainTransition = AnimatedTransition
    /\ bodyTransition = AnimatedTransition
    /\ mainBg = ScrollColor("a", 3)

\* C25: in every reachable state the colour sequence has as many entries
\* as the selected exhibit has navigable slides, and is empty in Home.
C25_SequenceLengthIsSlideCount ==
    /\ Len(galleryColors(selectedExhibit)) = NavigableCount(selectedExhibit)
    /\ Len(galleryColors(rSelected)) = NavigableCount(rSelected)
    /\ ~IsDetail => galleryColors(selectedExhibit) = <<>>

\* exhibit a is selected: four gallery items, three of them with an asset
C25_Witness ==
    /\ ~loading
    /\ selectedExhibit = "a"
    /\ rSelected = "a"
    /\ Len(ExhibitOf("a").items) = 4
    /\ NavigableCount("a") = 3
    /\ Len(galleryColors(selectedExhibit)) = 3

\* C26: each entry of the colour sequence is the slide's dominant
\* background if present, else the first cover image's dominant background
\* if present, else the fixed default colour.
C26_EntryFallbackChain ==
    IsDetail =>
        LET e == ExhibitOf(selectedExhibit)
            items == galleryItems(selectedExhibit)
        IN  \A i \in 1..Len(items) :
                galleryColors(selectedExhibit)[i] =
                    IF items[i].bg # NoColor THEN items[i].bg
                    ELSE IF e.coverBg # NoColor THEN e.coverBg
                    ELSE DefaultColor

\* the single-slide exhibit, which records no swatch at all, is open on
\* the default colour; exhibit a shows the other two cases
C26_Witness ==
    /\ selectedExhibit = "b"
    /\ rSelected = "b"
    /\ galleryColors(selectedExhibit) = <<DefaultColor>>
    /\ mainBg = CssColor(DefaultColor)
    /\ galleryColors("a")[1] = galleryItems("a")[1].bg
    /\ galleryColors("a")[2] = ExhibitOf("a").coverBg

\* C27: in Detail the text colour of the rendered view is the current
\* slide's dominant foreground if present, else the first cover image's
\* dominant foreground if present, else the fixed default.
C27_TextColourFallbackChain ==
    rSelected # NoExhibit =>
        LET e == ExhibitOf(rSelected)
            items == galleryItems(rSelected)
            slideFg == IF rIndex + 1 \in 1..Len(items)
                       THEN items[rIndex + 1].fg ELSE NoColor
        IN  appTextColor(rSelected, rIndex) =
                IF slideFg # NoColor THEN slideFg
                ELSE IF e.coverFg # NoColor THEN e.coverFg
                ELSE DefaultText

\* the RGB value a 3-digit or 6-digit hex colour denotes
RgbValue(c) ==
    LET body == IF Head(c) = "#" THEN Tail(c) ELSE c
    IN  [i \in 1..3 |->
            IF Len(body) = 3 THEN 17 * HexVal(body[i])
            ELSE 16 * HexVal(body[2 * i - 1]) + HexVal(body[2 * i])]

Between(x, a, b) == (a <= x /\ x <= b) \/ (b <= x /\ x <= a)

\* C28: for 3-digit and 6-digit hex colours c1, c2, with or without '#',
\* interpolateColor(c1, c2, 0) is the RGB value of c1 and
\* interpolateColor(c1, c2, 1) that of c2; every channel of a mix lies
\* between the two channels it mixes.
C28_EndpointsAreTheColours ==
    mixArgs.num >= 0 =>
        /\ mixArgs.num = 0 => mixArgs.out = RgbValue(mixArgs.c1)
        /\ mixArgs.num = ClientWidth => mixArgs.out = RgbValue(mixArgs.c2)
        /\ \A i \in 1..3 :
               Between(mixArgs.out[i], RgbValue(mixArgs.c1)[i], RgbValue(mixArgs.c2)[i])

\* a 3-digit colour with '#' was mixed with a 6-digit colour without it at
\* factor 1
C28_Witness ==
    /\ mixArgs.c1 = <<"#", "F", "9", "0">>
    /\ mixArgs.c2 = <<"1", "e", "C", "0", "1", "e">>
    /\ mixArgs.num = ClientWidth
    /\ mixArgs.out = <<30, 192, 30>>

\* C29: once a state change is rendered, the document title is the base
\* title in Home and, in Detail, the selected exhibit's title followed by
\* the base title, prefixed by the current slide's title when it has one.
C29_TitleMatchesView ==
    (selectedExhibit = rSelected /\ currentIndex = rIndex) =>
        IF ~IsDetail THEN title = <<BaseTitle>>
        ELSE LET items == galleryItems(selectedExhibit)
                 slideTitle == IF currentIndex + 1 \in 1..Len(items)
                               THEN items[currentIndex + 1].title ELSE NoTitle
                 rest == <<ExhibitOf(selectedExhibit).title, BaseTitle>>
             IN  title = IF slideTitle # NoTitle THEN <<slideTitle>> \o rest
                         ELSE rest

\* exhibit a is rendered on its third slide after a scroll: the title
\* carries the slide's and the exhibit's titles
C29_Witness ==
    /\ selectedExhibit = "a"
    /\ rSelected = "a"
    /\ currentIndex = 2
    /\ rIndex = 2
    /\ scrollLeft = 2 * ClientWidth
    /\ title = <<"Three", "Alpha", BaseTitle>>

\* C30: whenever the blocking error is set, the view is Home, the title is
\* the base title and the ambient background is the home default.
C30_ErrorShowsNoExhibitState ==
    error =>
        /\ selectedExhibit = NoExhibit
        /\ title = <<BaseTitle>>
        /\ mainBg = Cleared
        /\ bodyBg = CssColor(HomeBg)
        /\ themeColor = CssColor(HomeBg)

\* C31: the Retry button is offered in the error state and starts a new
\* load; a load always ends with loading false, and one whose weekly fetch
\* succeeded ends with the error cleared and the fetched list in the state.
C31_RetryRecovers ==
    /\ loading ~> ~loading
    /\ [][/\ Retry => (error /\ loading' /\ ~error')
          /\ \A w \in WeeklyOutcomes \ {Rejected}, c \in CreativeOutcomes :
                 loadData(w, c) => (~error' /\ ~loading' /\ exhibits' = w)]_vars

\* after a retry from the error view the weekly list is loaded and shown
C31_Witness ==
    /\ ~loading
    /\ ~error
    /\ exhibits = <<"a", "b">>
    /\ creativeCalls = <<>>
    /\ selectedExhibit = NoExhibit
    /\ CurrentUrl = PathOnly

\* the view state a fresh session (Home, index 0) resolves URL u to
FreshSession(items, u) ==
    IF u.exhibit \notin {AbsentId, ""}
       /\ \A i \in 1..Len(items) : items[i] # u.exhibit
    THEN [sel |-> NoExhibit, idx |-> 0]
    ELSE syncStateFromUrl(items, u)

\* C32: in every state reached after the data arrived, opening the current
\* URL in a fresh session with the same lists restores the view state:
\* Detail(X, i) in Detail(X, i), Home in Home.
C32_DeepLinkRoundTrip ==
    ~loading =>
        FreshSession(Loaded, CurrentUrl)
            = [sel |-> selectedExhibit, idx |-> currentIndex]

\* an attempt that failed: network error, status not OK, or a response
\* that is not valid (not JSON, or JSON without a result)
AttemptFailed(r) == r \in {"NetworkError", "HttpError", "BadJson", "NoResult"}

\* C33: the proxies are requested in the fixed order, the next one only
\* after the previous attempt failed; a fulfilled fetch returns the first
\* successful result; the fetch is rejected only when every proxy failed.
C33_ProxyChainInOrder ==
    LET n == Len(proxyRun.requested)
    IN  /\ proxyRun.requested = SubSeq(Strategies, 1, n)
        /\ \A i \in 2..n : AttemptFailed(proxyRun.responses[i - 1])
        /\ proxyRun.settled = "fulfilled" =>
               /\ proxyRun.value = n
               /\ proxyRun.responses[n] = "Result"
        /\ proxyRun.settled = "rejected" =>
               /\ n = Len(Strategies)
               /\ \A i \in 1..n : AttemptFailed(proxyRun.responses[i])

\* C34: an ArrowLeft or ArrowRight press while the view is Home changes
\* neither the scroll state, nor the view state, nor the URL and history.
C34_KeysInertInHome ==
    [][(~IsDetail /\ (KeyDown("ArrowLeft") \/ KeyDown("ArrowRight"))) =>
          UNCHANGED <<scrollVars, selectedExhibit, currentIndex, histVars>>]_vars

\* Home after the return from a detail view whose lock has been released:
\* the key listener of that view is removed, key presses are possible
C34_Witness ==
    /\ ~loading /\ ~error
    /\ selectedExhibit = NoExhibit
    /\ rSelected = NoExhibit
    /\ pos = 2
    /\ hist[1].exhibit = "a"
    /\ hist[2] = PathOnly
    /\ lockTimers = 0
    /\ ~isTransitioning
    /\ currentIndex = 0
    /\ scrollLeft = 0

\* C38: restoring the view state from the URL writes no history: data
\* arrival leaves the entries and the current entry as they are, and a
\* popstate leaves the entries as they are and stays on the entry the
\* browser moved to.
C38_SyncWritesNoHistory ==
    [][/\ DataArrives => UNCHANGED histVars
       /\ \A p \in 1..MaxHist : handlePopState(p) => (hist' = hist /\ pos' = p)]_vars

\* browser Back from a clicked exhibit to the bare path: Home is restored
\* and the entry of the exhibit is still there
C38_Witness ==
    /\ ~loading
    /\ pos = 1
    /\ Len(hist) = 2
    /\ hist[1] = PathOnly
    /\ hist[2] = Url("a", <<"0">>)
    /\ selectedExhibit = NoExhibit

\* C39: in every reachable state where the view is Home the index is 0.
C39_HomeIndexIsZero == ~IsDetail => currentIndex = 0

\* Home reached by the back action from the third slide of exhibit a
C39_Witness ==
    /\ ~loading
    /\ selectedExhibit = NoExhibit
    /\ currentIndex = 0
    /\ pos = 2
    /\ hist[1] = Url("a", <<"2">>)
    /\ hist[2] = PathOnly

\* C40: the blocking error is set iff the weekly fetch failed; when only the
\* creative fetch failed the weekly list is loaded and a deep link into a
\* weekly exhibit resolves.
C40_CreativeFailureNotBlocking ==
    [][\A w \in WeeklyOutcomes, c \in CreativeOutcomes :
          loadData(w, c) =>
              /\ error' <=> (w = Rejected)
              /\ w # Rejected =>
                     /\ exhibits' = w
                     /\ (\E i \in 1..Len(w) : w[i] = CurrentUrl.exhibit)
                            => selectedExhibit' = CurrentUrl.exhibit]_vars

\* the creative fetch failed, the weekly list is loaded and the deep link
\* into exhibit a is resolved
C40_Witness ==
    /\ ~loading
    /\ ~error
    /\ exhibits = <<"a", "b">>
    /\ creativeCalls = <<>>
    /\ selectedExhibit = "a"
    /\ currentIndex = 1
    /\ CurrentUrl = Url("a", <<"1">>)

\* C35: once a detail view of exhibit x with N >= 1 navigable slides
\* is entered by URL with an index k >= N, the index is eventually N - 1 and
\* the URL carries slide N - 1, unless the view is left before.
C35_OutOfRangeIsBroughtBack ==
    \A x \in Identifiers :
        (/\ ~loading /\ ~error
         /\ selectedExhibit = x
         /\ NavigableCount(x) >= 1
         /\ currentIndex >= NavigableCount(x))
        ~> (\/ selectedExhibit # x
            \/ /\ currentIndex = LastIndex(x)
               /\ CurrentUrl = Url(x, toString(LastIndex(x))))

\* C37: while the transition lock is set a release timer is pending, and in
\* every execution that stops arming the lock, the lock is eventually false
\* for good, whether or not the view is Home when the timer fires.
C37_LockIsReleased ==
    /\ [](isTransitioning => lockTimers > 0)
    /\ (<>[][lockTimers' <= lockTimers]_vars) => <>[](~isTransitioning)

\* the view is back in Home while the lock is set and its timer pending
C37_Witness ==
    /\ ~loading
    /\ rSelected = NoExhibit
    /\ isTransitioning
    /\ lockTimers = 1
    /\ clickTimers = <<>>
    /\ pos = 2
    /\ hist[2] = PathOnly

\* the carousel rests on the page of the stored index, which is rendered
\* and written in the URL
RestsOnIndex ==
    /\ scrollTarget = NoTarget
    /\ ~scrollPending
    /\ rIndex = currentIndex
    /\ scrollLeft = ClientWidth * currentIndex
    /\ CurrentUrl = Url(rSelected, toString(currentIndex))

\* C36: in every execution whose navigation requests (dot, arrow button,
\* arrow key) come to an end, the carousel eventually rests for good on the
\* target of the last request, with the index and the slide of the URL equal
\* to that target.
C36_RequestArrives ==
    (<>[][~NavRequest]_vars) => <>[](IsMounted => RestsOnIndex)

====
